---------------------------- MODULE Spec2Model ----------------------------
(***************************************************************************)
(* StyleMate (app.py): a Flask application with signup / login / logout /  *)
(* profile routes over a SQLite users table, a rule-based outfit           *)
(* suggestion engine and an optional OpenAI gateway.                       *)
(*                                                                         *)
(* Text is modelled as a sequence of one-character strings, so that        *)
(* str.lower, str.strip, str.split and the `in` substring test are         *)
(* computed character by character.                                        *)
(***************************************************************************)
EXTENDS Integers, Sequences, FiniteSets, TLC

\* Python's None: a missing form field, an absent row, an absent session key.
None == "None"

(***************************************************************************)
(* Bounds of the model.                                                    *)
(***************************************************************************)
\* number of vocabulary fragments concatenated into a clothes text
MaxClothesFrags == 2
\* number of vocabulary fragments concatenated into an event text
MaxEventFrags == 2
\* number of distinct salts generate_password_hash may draw
NumSalts == 1

(***************************************************************************)
(* Text primitives (Python str methods used by suggest_rule_based).        *)
(***************************************************************************)
UpperAlpha == <<"A","B","C","D","E","F","G","H","I","J","K","L","M",
                "N","O","P","Q","R","S","T","U","V","W","X","Y","Z">>
LowerAlpha == <<"a","b","c","d","e","f","g","h","i","j","k","l","m",
                "n","o","p","q","r","s","t","u","v","w","x","y","z">>
Whitespace == {" ", "\t", "\n"}

\* one character of str.lower()
UpperSet == {UpperAlpha[i] : i \in 1..26}
LowerChar(ch) ==
    IF ch \in UpperSet
    THEN LowerAlpha[CHOOSE i \in 1..26 : UpperAlpha[i] = ch]
    ELSE ch

\* str.lower()
RECURSIVE Lower(_)
Lower(s) == IF s = <<>> THEN <<>> ELSE <<LowerChar(Head(s))>> \o Lower(Tail(s))

\* str.strip(): drop leading and trailing whitespace
RECURSIVE LStrip(_)
LStrip(s) == IF s # <<>> /\ Head(s) \in Whitespace THEN LStrip(Tail(s)) ELSE s
RECURSIVE RStrip(_)
RStrip(s) ==
    IF s # <<>> /\ s[Len(s)] \in Whitespace THEN RStrip(SubSeq(s, 1, Len(s) - 1)) ELSE s
Strip(s) == RStrip(LStrip(s))

\* `kw in s` for strings: kw occurs as a contiguous substring of s
Contains(s, kw) ==
    \E i \in 0..(Len(s) - Len(kw)) : \A j \in 1..Len(kw) : s[i + j] = kw[j]

\* str.split(','): the pieces between commas, empty pieces included
RECURSIVE SplitFrom(_, _, _)
SplitFrom(s, i, cur) ==
    IF i > Len(s) THEN <<cur>>
    ELSE IF s[i] = "," THEN <<cur>> \o SplitFrom(s, i + 1, <<>>)
         ELSE SplitFrom(s, i + 1, Append(cur, s[i]))
SplitComma(s) == SplitFrom(s, 1, <<>>)

\* ', '.join(seq)
RECURSIVE JoinComma(_)
JoinComma(ss) ==
    IF Len(ss) = 0 THEN <<>>
    ELSE IF Len(ss) = 1 THEN ss[1]
         ELSE ss[1] \o <<",", " ">> \o JoinComma(Tail(ss))

\* [x for x in ss if x in Keep]: the elements of ss that lie in Keep, in order
RECURSIVE Filter(_, _)
Filter(ss, Keep) ==
    IF ss = <<>> THEN <<>>
    ELSE IF Head(ss) \in Keep THEN <<Head(ss)>> \o Filter(Tail(ss), Keep)
         ELSE Filter(Tail(ss), Keep)
Range(ss) == {ss[i] : i \in 1..Len(ss)}

\* [x.strip().lower() for x in ss]
RECURSIVE StripLowerAll(_)
StripLowerAll(ss) ==
    IF ss = <<>> THEN <<>>
    ELSE <<Lower(Strip(Head(ss)))>> \o StripLowerAll(Tail(ss))

(***************************************************************************)
(* Keywords of the rule engine.                                            *)
(***************************************************************************)
K_shirt    == <<"s","h","i","r","t">>
K_top      == <<"t","o","p">>
K_jeans    == <<"j","e","a","n","s">>
K_pants    == <<"p","a","n","t","s">>
K_skirt    == <<"s","k","i","r","t">>
K_dress    == <<"d","r","e","s","s">>
K_jacket   == <<"j","a","c","k","e","t">>
K_coat     == <<"c","o","a","t">>
K_shoes    == <<"s","h","o","e","s">>
K_sneakers == <<"s","n","e","a","k","e","r","s">>
K_boots    == <<"b","o","o","t","s">>

K_interview == <<"i","n","t","e","r","v","i","e","w">>
K_party     == <<"p","a","r","t","y">>
K_college   == <<"c","o","l","l","e","g","e">>
K_wedding   == <<"w","e","d","d","i","n","g">>

colors == << <<"r","e","d">>, <<"b","l","u","e">>, <<"g","r","e","e","n">>,
             <<"b","l","a","c","k">>, <<"w","h","i","t","e">>, <<"g","r","a","y">>,
             <<"y","e","l","l","o","w">>, <<"p","i","n","k">> >>


(***************************************************************************)
(* suggest_rule_based: the rule engine.                                    *)
(***************************************************************************)
\* detected_colors: palette colors occurring in the lower-cased text, palette order
detected_colors(clothes_text) ==
    LET low == Lower(clothes_text)
    IN  Filter(colors, {c \in Range(colors) : Contains(low, c)})

\* items: [item.strip().lower() for item in clothes_text.split(',')]
items(clothes_text) == StripLowerAll(SplitComma(clothes_text))

Buckets == <<"tops", "bottoms", "dresses", "outer", "shoes", "accessories">>

\* a plausible slip: the dress test placed ahead of the shirt/top test
Category_dressFirst(item) ==
    IF Contains(item, K_dress) THEN "dresses"
    ELSE IF Contains(item, K_shirt) \/ Contains(item, K_top) THEN "tops"
    ELSE IF Contains(item, K_jeans) \/ Contains(item, K_pants) \/ Contains(item, K_skirt)
         THEN "bottoms"
    ELSE IF Contains(item, K_jacket) \/ Contains(item, K_coat) THEN "outer"
    ELSE IF Contains(item, K_shoes) \/ Contains(item, K_sneakers) \/ Contains(item, K_boots)
         THEN "shoes"
    ELSE "accessories"

\* the if/elif cascade that picks the bucket an item is appended to
Category(item) ==
    IF Contains(item, K_shirt) \/ Contains(item, K_top) THEN "tops"
    ELSE IF Contains(item, K_jeans) \/ Contains(item, K_pants) \/ Contains(item, K_skirt)
         THEN "bottoms"
    ELSE IF Contains(item, K_dress) THEN "dresses"
    ELSE IF Contains(item, K_jacket) \/ Contains(item, K_coat) THEN "outer"
    ELSE IF Contains(item, K_shoes) \/ Contains(item, K_sneakers) \/ Contains(item, K_boots)
         THEN "shoes"
    ELSE "accessories"

\* the for loop: each item in turn is appended to the bucket the cascade picks
RECURSIVE CategorizeFrom(_, _)
CategorizeFrom(its, cats) ==
    IF its = <<>> THEN cats
    ELSE CategorizeFrom(Tail(its),
                        [cats EXCEPT ![Category(Head(its))] = Append(@, Head(its))])
\* categories after the loop, from six empty lists
Categorize(its) ==
    CategorizeFrom(its, [tops |-> <<>>, bottoms |-> <<>>, dresses |-> <<>>,
                         outer |-> <<>>, shoes |-> <<>>, accessories |-> <<>>])

\* the (outfit, color_tip, accessories) templates of each event branch
Template(bucket) ==
    CASE bucket = "interview" ->
            [outfit      |-> "Professional: Button-up shirt with slacks or skirt.",
             color_tip   |-> "Neutral colors (black, navy, gray).",
             accessories |-> "Minimal: Watch, simple earrings, polished shoes."]
      [] bucket = "party" ->
            [outfit      |-> "Fun and vibrant: Stylish top with jeans.",
             color_tip   |-> "Bright or metallic colors to stand out.",
             accessories |-> "Statement jewelry, clutch, heels or boots."]
      [] bucket = "college" ->
            [outfit      |-> "Casual: Jeans with t-shirt or hoodie.",
             color_tip   |-> "Mix casual colors; earth tones for relaxed vibe.",
             accessories |-> "Backpack, sneakers, cap or scarf."]
      [] bucket = "wedding" ->
            [outfit      |-> "Elegant dress or suit.",
             color_tip   |-> "Pastels or jewel tones.",
             accessories |-> "Delicate jewelry, dress shoes, small bag."]
      [] OTHER ->
            [outfit      |-> "Comfortable and confident: Mix and match your clothes.",
             color_tip   |-> "Neutrals work for any occasion.",
             accessories |-> "Keep it simple."]

\* a plausible slip: the party test placed ahead of the interview test
EventBucket_partyFirst(ev) ==
    LET e == Lower(ev)
    IN  IF Contains(e, K_party) THEN "party"
        ELSE IF Contains(e, K_interview) THEN "interview"
        ELSE IF Contains(e, K_college) THEN "college"
        ELSE IF Contains(e, K_wedding) THEN "wedding"
        ELSE "default"

\* the if/elif cascade over the lower-cased event
EventBucket(ev) ==
    LET e == Lower(ev)
    IN  IF Contains(e, K_interview) THEN "interview"
        ELSE IF Contains(e, K_party) THEN "party"
        ELSE IF Contains(e, K_college) THEN "college"
        ELSE IF Contains(e, K_wedding) THEN "wedding"
        ELSE "default"

\* the returned f-string, as a record of its variable parts: each template, the
\* optional " Detected: ...." and " Use your ...." clauses (absent: the empty
\* sequence; present: the joined list) and the constant closing tip
suggest_rule_based(ev, clothes_text) ==
    LET det  == detected_colors(clothes_text)
        cats == Categorize(items(clothes_text))
        t    == Template(EventBucket(ev))
    IN  [outfit      |-> t.outfit,
         use_your    |-> IF Len(cats["tops"]) > 0 \/ Len(cats["bottoms"]) > 0
                         THEN <<JoinComma(cats["tops"] \o cats["bottoms"])>>
                         ELSE <<>>,
         color_tip   |-> t.color_tip,
         detected    |-> IF Len(det) > 0 THEN <<JoinComma(det)>> ELSE <<>>,
         accessories |-> t.accessories,
         tip         |-> "Match your vibe to the event!"]

(***************************************************************************)
(* Input texts: concatenations of vocabulary fragments.                    *)
(***************************************************************************)
ClothesVocab ==
    { <<"l","e","a","t","h","e","r"," ","j","a","c","k","e","t">>,
      <<",">>, <<" ">>,
      <<"D","r","e","s","s">>,
      <<"s","h","i","r","t">>,
      <<"b","l","u","e"," ","j","e","a","n","s">>,
      <<"r","e","d"," ","b","o","o","t","s">>,
      <<"h","a","t">> }

EventVocab ==
    { <<"i","n","t","e","r","v","i","e","w">>,
      <<" ","a","t"," ","a"," ","p","a","r","t","y">>,
      <<"P","a","r","t","y"," ">>,
      <<"C","o","l","l","e","g","e"," ","f","e","s","t">>,
      <<"w","e","d","d","i","n","g">> }

RECURSIVE Texts(_, _)
Texts(vocab, n) ==
    IF n = 0 THEN { <<>> }
    ELSE LET shorter == Texts(vocab, n - 1)
         IN  shorter \cup { t \o f : t \in shorter, f \in vocab }

ClothesTexts == Texts(ClothesVocab, MaxClothesFrags)
EventTexts   == Texts(EventVocab, MaxEventFrags)

(***************************************************************************)
(* Requests and responses.                                                 *)
(***************************************************************************)
Clients   == {"c1", "c2"}
Usernames == {"alice", "bob"}
Passwords == {"pw1", "pw2"}
\* the salt generate_password_hash draws at random
Salts     == 1..NumSalts

\* request.form.get('username'): None (missing) or a name.  An empty username
\* takes the branches of a missing one in both handlers (`not username` in
\* signup, no matching row in login), so it is not drawn separately.
UsernameField == {None} \cup Usernames
\* request.form.get('password'): None (missing), "" (empty) or a password
PasswordField == {None, ""} \cup Passwords
\* the account forms requests are drawn from: every username field with a
\* missing or present password, and the empty password with one stored name
AccountForms ==
    (UsernameField \X ({None} \cup Passwords)) \cup {<<"alice", "">>}

\* request.form.get(k) for a text field of the suggestion form when k is missing
NoneText == <<None>>
\* `not x` for a form value
Falsy(x)     == x = None \/ x = ""
FalsyText(t) == t = NoneText \/ t = <<>>

NoForm == [username |-> None, password |-> None,
           event |-> NoneText, clothes |-> NoneText, use_ai |-> None]
\* a request as handled: its route, method and form, and what the remote chat
\* completion did if the handler reached it (None: not reached)
Request(route, method, form) ==
    [route |-> route, method |-> method, form |-> form, remote |-> None]
NoRequest == Request(None, None, NoForm)

\* a session without the 'user_id' key
NoUserId == <<>>

NoSuggestion == [from |-> None, rule |-> <<>>, ai |-> None]
\* what a handler returns: a rendered template, a redirect to an endpoint, or an
\* unhandled exception (Flask's 500 page; the debugger's traceback under debug=True)
Response(kind, target, msg) ==
    [kind |-> kind, target |-> target, flash |-> msg, username |-> None,
     suggestion |-> NoSuggestion, use_ai_notice |-> None, remote_calls |-> 0]
Render(template, msg) == Response("render", template, msg)
Redirect(endpoint, msg) == Response("redirect", endpoint, msg)
Unhandled(exc)          == Response("error", exc, None)
NoResponse == Response(None, None, None)

(***************************************************************************)
(* werkzeug.security and the users table.                                  *)
(***************************************************************************)
\* generate_password_hash: a salted one-way digest, written "method$salt$hash"
generate_password_hash(password, salt) ==
    [salt |-> salt, digest |-> <<salt, password>>]

\* check_password_hash(pwhash, password) re-derives the digest with the stored
\* salt; password.encode() raises AttributeError when password is None
check_password_hash_raises(pwhash, password) == password = None
check_password_hash(pwhash, password) ==
    pwhash.digest = <<pwhash.salt, password>>

\* INTEGER PRIMARY KEY: the rowid SQLite gives a new row
NextId(tbl) ==
    IF tbl = {} THEN 1
    ELSE (CHOOSE i \in {u.id : u \in tbl} : \A u \in tbl : u.id <= i) + 1

\* a plausible slip: the table created without UNIQUE on username
Insert_noUnique(tbl, username, hashed_pw) ==
    [ok |-> TRUE,
     users |-> tbl \cup {[id |-> NextId(tbl), username |-> username,
                          password |-> hashed_pw]}]

\* a plausible slip: INSERT OR REPLACE, which overwrites the row of a taken name
Insert_orReplace(tbl, username, hashed_pw) ==
    IF \E u \in tbl : u.username = username
    THEN [ok |-> FALSE,
          users |-> {IF u.username = username
                     THEN [u EXCEPT !.password = hashed_pw] ELSE u : u \in tbl}]
    ELSE [ok |-> TRUE,
          users |-> tbl \cup {[id |-> NextId(tbl), username |-> username,
                               password |-> hashed_pw]}]

\* INSERT INTO users (username, password) under username TEXT UNIQUE, then
\* commit: ok = FALSE is sqlite3.IntegrityError, which leaves the table as it was
Insert(tbl, username, hashed_pw) ==
    IF \E u \in tbl : u.username = username
    THEN [ok |-> FALSE, users |-> tbl]
    ELSE [ok |-> TRUE,
          users |-> tbl \cup {[id |-> NextId(tbl), username |-> username,
                               password |-> hashed_pw]}]

\* SELECT * FROM users WHERE username = ? (NULL matches no row)
SelectByUsername(tbl, username) == {u \in tbl : u.username = username}
\* SELECT username FROM users WHERE id = ?
SelectById(tbl, id) == {u \in tbl : u.id = id}

(***************************************************************************)
(* The handlers, as functions of what they read.                           *)
(***************************************************************************)
\* a plausible slip: the password test dropped from the login condition
login_noPasswordCheck(tbl, sess, method, form) ==
    IF method = "GET" THEN [session |-> sess, resp |-> Render("login.html", None)]
    ELSE LET rows == SelectByUsername(tbl, form.username)
         IN  IF rows # {}
             THEN [session |-> <<(CHOOSE u \in rows : TRUE).id>>,
                   resp    |-> Redirect("profile", "Login successful!")]
             ELSE [session |-> sess,
                   resp    |-> Render("login.html", "Invalid username or password.")]

\* login(): the session after the request and the response
login(tbl, sess, method, form) ==
    IF method = "GET" THEN [session |-> sess, resp |-> Render("login.html", None)]
    ELSE LET rows == SelectByUsername(tbl, form.username)
             invalid == [session |-> sess,
                         resp    |-> Render("login.html", "Invalid username or password.")]
         IN  IF rows = {} THEN invalid
             ELSE LET user == CHOOSE u \in rows : TRUE
                  IN  IF check_password_hash_raises(user.password, form.password)
                      THEN [session |-> sess, resp |-> Unhandled("AttributeError")]
                      ELSE IF check_password_hash(user.password, form.password)
                           THEN [session |-> <<user.id>>,
                                 resp    |-> Redirect("profile", "Login successful!")]
                           ELSE invalid

\* signup(): the users table after the request and the response; salt is the
\* salt generate_password_hash draws
signup(tbl, method, form, salt) ==
    IF method = "GET" THEN [users |-> tbl, resp |-> Render("signup.html", None)]
    ELSE IF Falsy(form.username) \/ Falsy(form.password)
         THEN [users |-> tbl,
               resp  |-> Redirect("signup", "Username and password required.")]
    ELSE LET hashed_pw == generate_password_hash(form.password, salt)
             r == Insert(tbl, form.username, hashed_pw)
         IN  [users |-> r.users,
              resp  |-> IF r.ok
                        THEN Redirect("login", "Signup successful! Please login.")
                        ELSE Render("signup.html", "Username already taken.")]

\* a plausible slip: logout that flashes and redirects but leaves the key in place
logout_keepsSession(sess) ==
    [session |-> sess, resp |-> Redirect("index", "Logged out.")]

\* logout(): session.pop('user_id', None)
logout(sess) ==
    [session |-> NoUserId, resp |-> Redirect("index", "Logged out.")]

\* a plausible slip: the SELECT without its WHERE clause, so the first row is shown
profile_firstRow(tbl, sess) ==
    IF sess # NoUserId
    THEN IF tbl = {} THEN Unhandled("TypeError")
         ELSE [Render("profile.html", None) EXCEPT
                 !.username = (CHOOSE u \in tbl : \A v \in tbl : u.id <= v.id).username]
    ELSE Redirect("login", "Please login.")

\* profile(): fetchone()[0] raises TypeError when no row has the session's id
profile(tbl, sess) ==
    IF sess # NoUserId
    THEN LET rows == SelectById(tbl, sess[1])
         IN  IF rows = {} THEN Unhandled("TypeError")
             ELSE [Render("profile.html", None) EXCEPT
                     !.username = (CHOOSE u \in rows : TRUE).username]
    ELSE Redirect("login", "Please login.")

\* what the remote chat completion does when it is reached
RemoteOutcomes == {"raises", "empty", "text"}
AiText == "- Outfit: ..."

\* call_openai(): value None without a remote call when the key or the client
\* library is absent; otherwise one remote call, None when anything raises
call_openai(key, lib, remote) ==
    IF Falsy(key) \/ ~lib THEN [value |-> None, calls |-> 0]
    ELSE IF remote = "raises" THEN [value |-> None, calls |-> 1]
    ELSE IF remote = "empty" THEN [value |-> "", calls |-> 1]
    ELSE [value |-> AiText, calls |-> 1]

\* the notice (the source writes its dash as U+2014)
AiNotice == "AI unavailable - using rule-based suggestions."
\* the values the suggestion form is drawn from
ApiKeys    == {None, "", "sk-test"}
PartyEvent == <<"P","a","r","t","y"," ">>
ShirtText  == <<"s","h","i","r","t">>
WebEvents  == {NoneText, <<>>, PartyEvent}
WebClothes == {NoneText, <<>>, ShirtText, <<"h","a","t">>}
UseAiField == {None, "on"}

\* suggestion = suggest_rule_based(event, clothes_text)
RuleSuggestion(ev, clothes) ==
    [from |-> "rule", rule |-> <<suggest_rule_based(ev, clothes)>>, ai |-> None]

\* a plausible slip: the fallback branch sets the notice but not the suggestion
index_noFallback(method, form, key, lib, remote) ==
    IF method = "GET" THEN Render("index.html", None)
    ELSE IF FalsyText(form.event) \/ FalsyText(form.clothes)
         THEN Redirect("index", "Please enter event and clothes.")
    ELSE IF form.use_ai = "on"
         THEN LET ai == call_openai(key, lib, remote)
              IN  IF ~Falsy(ai.value)
                  THEN [Render("index.html", None) EXCEPT
                          !.suggestion = [from |-> "ai", rule |-> <<>>, ai |-> ai.value],
                          !.remote_calls = ai.calls]
                  ELSE [Render("index.html", None) EXCEPT
                          !.use_ai_notice = AiNotice,
                          !.remote_calls = ai.calls]
    ELSE [Render("index.html", None) EXCEPT
            !.suggestion = RuleSuggestion(form.event, form.clothes)]

\* index(): remote_calls counts the remote calls the request made
index(method, form, key, lib, remote) ==
    IF method = "GET" THEN Render("index.html", None)
    ELSE IF FalsyText(form.event) \/ FalsyText(form.clothes)
         THEN Redirect("index", "Please enter event and clothes.")
    ELSE IF form.use_ai = "on"
         THEN LET ai == call_openai(key, lib, remote)
              IN  IF ~Falsy(ai.value)
                  THEN [Render("index.html", None) EXCEPT
                          !.suggestion = [from |-> "ai", rule |-> <<>>, ai |-> ai.value],
                          !.remote_calls = ai.calls]
                  ELSE [Render("index.html", None) EXCEPT
                          !.use_ai_notice = AiNotice,
                          !.suggestion = RuleSuggestion(form.event, form.clothes),
                          !.remote_calls = ai.calls]
    ELSE [Render("index.html", None) EXCEPT
            !.suggestion = RuleSuggestion(form.event, form.clothes)]

(***************************************************************************)
(* State.                                                                  *)
(***************************************************************************)
VARIABLES
    users,        \* the rows of the users table: [id, username, password]
    session,      \* per client: <<session['user_id']>>, <<>> when the key is absent
    req,          \* per client: the request being, or last, handled
    resp,         \* per client: the response to req
    api_key,      \* os.getenv('OPENAI_API_KEY')
    OpenAI,       \* FALSE when the openai import failed (OpenAI = None)
    event,        \* suggest_rule_based: its event argument
    clothes_text, \* suggest_rule_based: its clothes_text argument
    categories,   \* suggest_rule_based: <<the categories dict after the loop>>
    suggestion    \* suggest_rule_based: <<the value returned>>

vars == <<users, session, req, resp, api_key, OpenAI,
          event, clothes_text, categories, suggestion>>
accountVars == <<users, session>>
envVars     == <<api_key, OpenAI>>
ruleVars    == <<event, clothes_text, categories, suggestion>>

NoCategories == <<>>

InitAccounts ==
    /\ users = {}
    /\ session = [c \in Clients |-> NoUserId]
    /\ req = [c \in Clients |-> NoRequest]
    /\ resp = [c \in Clients |-> NoResponse]
InitRuleIdle ==
    /\ event = <<>>
    /\ clothes_text = <<>>
    /\ categories = NoCategories
    /\ suggestion = <<>>

\* the state after init_db() on a fresh database, no AI configured
Init ==
    /\ InitAccounts
    /\ api_key = None
    /\ OpenAI = FALSE
    /\ InitRuleIdle

(***************************************************************************)
(* Account routes.  Each handler touches the database in one statement     *)
(* (one INSERT with its commit, or one SELECT) and the session of its own  *)
(* client only, so a request takes effect at that statement and requests   *)
(* of different clients interleave as whole steps, in any order.           *)
(***************************************************************************)
AccountForm(u, p) == [NoForm EXCEPT !.username = u, !.password = p]

SignupGet(c) ==
    /\ LET r == signup(users, "GET", NoForm, CHOOSE salt \in Salts : TRUE)
       IN  /\ users' = r.users
           /\ resp' = [resp EXCEPT ![c] = r.resp]
    /\ req' = [req EXCEPT ![c] = Request("signup", "GET", NoForm)]
    /\ UNCHANGED <<session, envVars, ruleVars>>

\* the salt is drawn only for a request that stores a row
SignupPost(c) ==
    /\ \E f \in AccountForms :
         LET form == AccountForm(f[1], f[2])
             r == signup(users, "POST", form, CHOOSE salt \in Salts : TRUE)
         IN  /\ req' = [req EXCEPT ![c] = Request("signup", "POST", form)]
             /\ IF r.users = users
                THEN /\ users' = users
                     /\ resp' = [resp EXCEPT ![c] = r.resp]
                ELSE \E salt \in Salts :
                       LET q == signup(users, "POST", form, salt)
                       IN  /\ users' = q.users
                           /\ resp' = [resp EXCEPT ![c] = q.resp]
    /\ UNCHANGED <<session, envVars, ruleVars>>

LoginGet(c) ==
    /\ LET r == login(users, session[c], "GET", NoForm)
       IN  /\ session' = [session EXCEPT ![c] = r.session]
           /\ resp' = [resp EXCEPT ![c] = r.resp]
    /\ req' = [req EXCEPT ![c] = Request("login", "GET", NoForm)]
    /\ UNCHANGED <<users, envVars, ruleVars>>

LoginPost(c) ==
    /\ \E f \in AccountForms :
         LET r == login(users, session[c], "POST", AccountForm(f[1], f[2]))
         IN  /\ session' = [session EXCEPT ![c] = r.session]
             /\ resp' = [resp EXCEPT ![c] = r.resp]
             /\ req' = [req EXCEPT
                          ![c] = Request("login", "POST", AccountForm(f[1], f[2]))]
    /\ UNCHANGED <<users, envVars, ruleVars>>

Logout(c) ==
    /\ LET r == logout(session[c])
       IN  /\ session' = [session EXCEPT ![c] = r.session]
           /\ resp' = [resp EXCEPT ![c] = r.resp]
    /\ req' = [req EXCEPT ![c] = Request("logout", "GET", NoForm)]
    /\ UNCHANGED <<users, envVars, ruleVars>>

Profile(c) ==
    /\ resp' = [resp EXCEPT ![c] = profile(users, session[c])]
    /\ req' = [req EXCEPT ![c] = Request("profile", "GET", NoForm)]
    /\ UNCHANGED <<accountVars, envVars, ruleVars>>

(***************************************************************************)
(* The suggestion route.  It reads and writes neither the users table nor  *)
(* the session.                                                            *)
(***************************************************************************)
IndexGet(c) ==
    /\ req' = [req EXCEPT ![c] = Request("index", "GET", NoForm)]
    /\ resp' = [resp EXCEPT ![c] = index("GET", NoForm, api_key, OpenAI, "raises")]
    /\ UNCHANGED <<accountVars, envVars, ruleVars>>

\* index() on POST, the form drawn from the given field values; what the
\* remote service does is drawn only for a request that reaches it
IndexPostFrom(c, events, clothes, use_ais) ==
    /\ \E e \in events, cl \in clothes, ai \in use_ais :
         LET form == [NoForm EXCEPT !.event = e, !.clothes = cl, !.use_ai = ai]
             r == index("POST", form, api_key, OpenAI, "raises")
         IN  IF r.remote_calls = 0
             THEN /\ req' = [req EXCEPT ![c] = Request("index", "POST", form)]
                  /\ resp' = [resp EXCEPT ![c] = r]
             ELSE \E remote \in RemoteOutcomes :
                    /\ req' = [req EXCEPT
                                 ![c] = [Request("index", "POST", form) EXCEPT
                                           !.remote = remote]]
                    /\ resp' = [resp EXCEPT
                                  ![c] = index("POST", form, api_key, OpenAI, remote)]
    /\ UNCHANGED <<accountVars, envVars, ruleVars>>

IndexPost(c) == IndexPostFrom(c, WebEvents, WebClothes, UseAiField)
\* beside the account routes: one complete form, use_ai off
IndexPostBrief(c) == IndexPostFrom(c, {PartyEvent}, {ShirtText}, {None})

\* every route, for every client (the suggestion page's GET is in NextIndex)
Next ==
    \E c \in Clients :
        \/ SignupGet(c)
        \/ SignupPost(c)
        \/ LoginGet(c)
        \/ LoginPost(c)
        \/ Logout(c)
        \/ Profile(c)
        \/ IndexPostBrief(c)

Spec == Init /\ [][Next]_vars

(***************************************************************************)
(* The suggestion route alone, under every configuration of the gateway.   *)
(***************************************************************************)
InitIndex ==
    /\ InitAccounts
    /\ api_key \in ApiKeys
    /\ OpenAI \in BOOLEAN
    /\ InitRuleIdle

NextIndex == \E c \in Clients : IndexGet(c) \/ IndexPost(c)

SpecIndex == InitIndex /\ [][NextIndex]_vars

(***************************************************************************)
(* The rule engine on its own, over the bounded input texts.              *)
(***************************************************************************)
InitRule ==
    /\ InitAccounts
    /\ api_key = None
    /\ OpenAI = FALSE
    /\ event \in EventTexts
    /\ clothes_text \in ClothesTexts
    /\ categories = NoCategories
    /\ suggestion = <<>>

SuggestRuleBased ==
    /\ categories = NoCategories
    /\ categories' = <<Categorize(items(clothes_text))>>
    /\ suggestion' = <<suggest_rule_based(event, clothes_text)>>
    /\ UNCHANGED <<accountVars, req, resp, envVars, event, clothes_text>>

NextRule == SuggestRuleBased

SpecRule == InitRule /\ [][NextRule]_vars

(***************************************************************************)
(* Properties of the account routes (checked under Spec).                  *)
(***************************************************************************)
SignupOk  == Redirect("login", "Signup successful! Please login.")
SignupDup == Render("signup.html", "Username already taken.")
LoginOk   == Redirect("profile", "Login successful!")
LoginBad  == Render("login.html", "Invalid username or password.")
IsLoginPost(c) == req[c].route = "login" /\ req[c].method = "POST"

\* C1: in every reachable state, whatever the interleaving of signup requests,
\* no two stored users share a username and no two share an id.
C1_UniqueUsers ==
    \A u, v \in users : u # v => (u.username # v.username /\ u.id # v.id)

\* Two clients asked for the same username: one was stored, the other was
\* refused, and a second user with another id is stored as well.
C1_Witness ==
    \E c, d \in Clients :
        /\ c # d
        /\ req[c].route = "signup" /\ req[d].route = "signup"
        /\ req[c].form.username = req[d].form.username
        /\ resp[c] = SignupOk /\ resp[d] = SignupDup
        /\ Cardinality(users) = 2

\* C2: a signup whose username is already stored ends with the
\* duplicate-username page and leaves the users table as it was; and a login
\* under that username made after the refusal succeeds exactly when its
\* password is the one the stored hash was derived from, so the refused
\* password, when it differs, yields no identity.
C2_DuplicateStep ==
    \A c \in Clients :
        (/\ req'[c].route = "signup" /\ req'[c].method = "POST"
         /\ <<req'[c], resp'[c]>> # <<req[c], resp[c]>>
         /\ SelectByUsername(users, req'[c].form.username) # {}
         /\ ~Falsy(req'[c].form.password))
        => (users' = users /\ resp'[c] = SignupDup)
C2_LoginAfterDuplicateStep ==
    \A c, d \in Clients :
        (/\ resp[c] = SignupDup /\ req[c].route = "signup"
         /\ req'[d].route = "login" /\ req'[d].method = "POST"
         /\ <<req'[d], resp'[d], session'[d]>> # <<req[d], resp[d], session[d]>>
         /\ req'[d].form.username = req[c].form.username)
        => \E u \in users :
              /\ u.username = req[c].form.username
              /\ (resp'[d] = LoginOk /\ session'[d] = <<u.id>>)
                 <=> (\E salt \in Salts :
                        u.password = generate_password_hash(req'[d].form.password, salt))
              /\ resp'[d] # LoginOk => session'[d] = session[d]
C2_DuplicateSignup ==
    [][C2_DuplicateStep /\ C2_LoginAfterDuplicateStep]_vars

\* A signup of a stored username with another password was refused, and a
\* client is logged in under that username with a password that is not the
\* refused one.
C2_Witness ==
    \E c, d \in Clients :
        /\ c # d
        /\ resp[c] = SignupDup /\ req[c].route = "signup"
        /\ resp[d] = LoginOk /\ IsLoginPost(d)
        /\ req[d].form.username = req[c].form.username
        /\ req[d].form.password # req[c].form.password

\* C3: session['user_id'] changes only by a login POST whose username is stored
\* and whose password matches the stored hash (it becomes that user's id) and by
\* a logout (it is removed); and an id in a session is the id of a stored user.
C3_SessionStep ==
    \A c \in Clients :
        session'[c] # session[c] =>
            \/ /\ req'[c].route = "login" /\ req'[c].method = "POST"
               /\ \E u \in users :
                     /\ u.username = req'[c].form.username
                     /\ check_password_hash(u.password, req'[c].form.password)
                     /\ session'[c] = <<u.id>>
            \/ /\ req'[c].route = "logout"
               /\ session'[c] = NoUserId
C3_SessionRefersToUser ==
    \A c \in Clients :
        session[c] # NoUserId => \E u \in users : session[c] = <<u.id>>
C3_SessionChanges ==
    [][C3_SessionStep]_vars /\ []C3_SessionRefersToUser

\* A logged-in client whose later suggestion request left its session in
\* place, beside a client whose login failed and left it anonymous.
C3_Witness ==
    \E c, d \in Clients :
        /\ session[c] # NoUserId /\ req[c].route = "index" /\ req[c].method = "POST"
        /\ session[d] = NoUserId /\ IsLoginPost(d) /\ resp[d] = LoginBad
        /\ \E u \in users : u.username = req[d].form.username

Authenticates(r) == r.resp = LoginOk

\* C4: a login that does not authenticate answers the same, and leaves the same
\* session, whether the username is unknown or the username is known and the
\* password (present, empty or missing) does not match.
C4_FailedLoginsIndistinguishable ==
    \A c \in Clients :
      \A u1, u2 \in UsernameField :
        \A p1, p2 \in PasswordField :
          LET r1 == login(users, session[c], "POST", AccountForm(u1, p1))
              r2 == login(users, session[c], "POST", AccountForm(u2, p2))
          IN  (/\ SelectByUsername(users, u1) = {}
               /\ SelectByUsername(users, u2) # {}
               /\ ~Authenticates(r2))
              => (r1.resp = r2.resp /\ r1.session = r2.session)

\* C5: every request ends in a rendered page or a redirect, never in an
\* unhandled exception.
C5_NoUnhandledException ==
    \A c \in Clients :
        req[c] # NoRequest => resp[c].kind \in {"render", "redirect"}

\* C7: after a logout, from whatever session state, the session holds no
\* user_id and the users table is as before; a profile request in an anonymous
\* session redirects to login; and the session stays anonymous until a login
\* succeeds.
C7_AfterLogout ==
    \A c \in Clients :
        /\ req[c].route = "logout" =>
              (session[c] = NoUserId /\ resp[c] = Redirect("index", "Logged out."))
        /\ (req[c].route = "profile" /\ session[c] = NoUserId) =>
              resp[c] = Redirect("login", "Please login.")
C7_LogoutStep ==
    \A c \in Clients :
        /\ (req'[c].route = "logout" /\ req'[c] # req[c]) => users' = users
        /\ (session[c] = NoUserId /\ session'[c] # NoUserId) =>
              (resp'[c] = LoginOk /\ req'[c].route = "login")
C7_LogoutUnconditional ==
    []C7_AfterLogout /\ [][C7_LogoutStep]_vars

\* Both clients logged in at some point; one has logged out and the users
\* table still holds the accounts, the other is still logged in.
C7_Witness ==
    \E c, d \in Clients :
        /\ c # d
        /\ req[c].route = "logout" /\ session[c] = NoUserId
        /\ session[d] # NoUserId
        /\ Cardinality(users) = 2

\* C8: the profile response shows a username exactly when the session holds a
\* user_id, and it is the stored username of the user with that id; without a
\* user_id it is the redirect to login with the "Please login." prompt.
C8_ProfileShowsOwnUsername ==
    \A c \in Clients :
        req[c].route = "profile" =>
            /\ (resp[c].username # None) <=> (session[c] # NoUserId)
            /\ session[c] # NoUserId =>
                  /\ resp[c].kind = "render" /\ resp[c].target = "profile.html"
                  /\ \E u \in users :
                        session[c] = <<u.id>> /\ resp[c].username = u.username
            /\ session[c] = NoUserId => resp[c] = Redirect("login", "Please login.")

\* The user stored second looks at their profile and sees their own name.
C8_Witness ==
    \E c \in Clients :
        /\ req[c].route = "profile"
        /\ session[c] = <<2>>
        /\ \E u \in users : u.id = 2 /\ resp[c].username = u.username

(***************************************************************************)
(* Property of the suggestion route (checked under SpecIndex).             *)
(***************************************************************************)
\* C6: for a suggestion POST with both text fields non-empty and use_ai on,
\* when the gateway yields no value (no key, no client library, or the remote
\* call raises) the response is the index page with exactly the rule engine's
\* suggestion for the same event and clothes and the AI-unavailable notice,
\* after at most one remote call (none without key or library).
C6_GatewayFallback ==
    \A c \in Clients :
        (/\ req[c].route = "index" /\ req[c].method = "POST"
         /\ ~FalsyText(req[c].form.event) /\ ~FalsyText(req[c].form.clothes)
         /\ req[c].form.use_ai = "on"
         /\ (Falsy(api_key) \/ ~OpenAI \/ req[c].remote = "raises"))
        => /\ resp[c].kind = "render" /\ resp[c].target = "index.html"
           /\ resp[c].suggestion.from = "rule"
           /\ resp[c].suggestion.rule =
                 <<suggest_rule_based(req[c].form.event, req[c].form.clothes)>>
           /\ resp[c].use_ai_notice = AiNotice
           /\ resp[c].remote_calls <= 1
           /\ (Falsy(api_key) \/ ~OpenAI) => resp[c].remote_calls = 0

\* One client's remote call raised and it got the fallback; the other's
\* succeeded and it got the AI text without a notice.
C6_Witness ==
    \E c, d \in Clients :
        /\ req[c].remote = "raises" /\ resp[c].use_ai_notice = AiNotice
        /\ resp[c].suggestion.from = "rule"
        /\ req[d].remote = "text" /\ resp[d].suggestion.from = "ai"

(***************************************************************************)
(* Properties of the rule engine (checked under SpecRule).                 *)
(***************************************************************************)
\* the keyword table of the categorization, bucket by bucket in priority order
BucketKeywords ==
    << {K_shirt, K_top}, {K_jeans, K_pants, K_skirt}, {K_dress},
       {K_jacket, K_coat}, {K_shoes, K_sneakers, K_boots}, {} >>
\* the first bucket one of whose keywords occurs in the piece, else accessories
FirstBucket(piece) ==
    LET hit == {i \in 1..5 : \E kw \in BucketKeywords[i] : Contains(piece, kw)}
    IN  IF hit = {} THEN Buckets[6]
        ELSE Buckets[CHOOSE i \in hit : \A j \in hit : i <= j]
Occurrences(seq, x) == Cardinality({k \in 1..Len(seq) : seq[k] = x})
RECURSIVE SumLen(_, _)
SumLen(cats, n) == IF n = 0 THEN 0 ELSE Len(cats[Buckets[n]]) + SumLen(cats, n - 1)

\* C9: every trimmed, lower-cased piece of the comma-split clothes text is in
\* exactly one of the six buckets: the first, in priority order, with a keyword
\* that is a substring of the piece, and accessories when there is none.
C9_CategorizationTotalExclusive ==
    categories # NoCategories =>
        LET cats == categories[1]
            its  == items(clothes_text)
        IN  /\ DOMAIN cats = {Buckets[i] : i \in 1..6}
            /\ SumLen(cats, 6) = Len(its)
            /\ \A k \in 1..Len(its) :
                 \A i \in 1..6 :
                    IF Buckets[i] = FirstBucket(its[k])
                    THEN Occurrences(cats[Buckets[i]], its[k]) = Occurrences(its, its[k])
                    ELSE Occurrences(cats[Buckets[i]], its[k]) = 0

LeatherJacket == <<"l","e","a","t","h","e","r"," ","j","a","c","k","e","t">>
\* "leather jacket", one of two or more pieces, is in outer and not in accessories.
C9_Witness ==
    /\ categories # NoCategories
    /\ Occurrences(categories[1]["outer"], LeatherJacket) = 1
    /\ Occurrences(categories[1]["accessories"], LeatherJacket) = 0
    /\ Len(items(clothes_text)) >= 2

EventOrder == <<K_interview, K_party, K_college, K_wedding>>
EventNames == <<"interview", "party", "college", "wedding">>
\* the first keyword of the fixed order that occurs in the lower-cased event
FirstEvent(ev) ==
    LET hit == {i \in 1..4 : Contains(Lower(ev), EventOrder[i])}
    IN  IF hit = {} THEN "default"
        ELSE EventNames[CHOOSE i \in hit : \A j \in hit : i <= j]

\* C10: the suggestion carries the template triple of the first of interview,
\* party, college, wedding that is a substring of the lower-cased event, and
\* the default triple when none is, wherever the keywords stand in the text.
C10_EventPrecedence ==
    suggestion # <<>> =>
        LET t == Template(FirstEvent(event))
        IN  /\ suggestion[1].outfit = t.outfit
            /\ suggestion[1].color_tip = t.color_tip
            /\ suggestion[1].accessories = t.accessories

\* "Party interview": party stands first in the text, the interview triple is used.
C10_Witness ==
    /\ suggestion # <<>>
    /\ event = <<"P","a","r","t","y"," ","i","n","t","e","r","v","i","e","w">>
    /\ suggestion[1].outfit = Template("interview").outfit

=============================================================================
